---- MODULE Spec2Model ----
(***************************************************************************)
(* The control loop of ReActAgent (src/src/rag/agent.py): the LangGraph    *)
(* state machine agent -> (tools -> agent)* -> END, the budget checks of   *)
(* the agent node, and the timeout / retry machinery of the tools node.    *)
(*                                                                         *)
(* Time is counted in units of half a second, so that the backoff          *)
(* 0.5 * 2^attempt seconds is the integer 2^attempt.                       *)
(***************************************************************************)
EXTENDS Integers, Sequences, FiniteSets, TLC

\* ------------------------------------------------------------------ bounds
\* largest max_iterations a configuration may hold
MaxIterations == 2
\* largest max_tool_retries a configuration may hold
MaxToolRetries == 3
\* a model response carries at most one tool call, plus extra ones of which a
\* run holds at most this many in all
MaxExtraCalls == 1
\* largest max_execution_time (half seconds) a configuration may hold
MaxExecutionTime == 1

\* the clock saturates one tick past every budget it is compared with
\* the chunks one StreamHandler is given
MaxChunks == 4
MaxTime == MaxExecutionTime + 1

VARIABLES
    config,            \* AgentConfig, fixed at construction
    phase,             \* position of the graph: idle, agent, route, tools, done, aborted
    messages,          \* AgentState.messages
    iteration_count,   \* AgentState.iteration_count
    start_time,        \* AgentState.start_time
    errors,            \* AgentState.errors
    now,               \* time.time()
    busy,              \* workers of self.executor held by tasks abandoned after a timeout
                       \* or by tasks of concurrent runs
    fut,               \* the future of the attempt in progress: none, queued, running
    tn,                \* locals of _tools_node and of the retry loop
    cur,               \* log of the tool call in progress: attempt outcomes, sleeps
    lastCall,          \* what _execute_tool_call_with_retries returned last
    lastPass,          \* the branch the last agent node pass took, and its inputs
    reasoning_passes,  \* number of completed agent node passes of the run
    tool_model_calls,  \* number of llm_with_tools.invoke calls of the run
    caller,            \* what the caller does: entry point, thread ids, number of calls
    runs,              \* number of invoke / stream calls made
    thread,            \* configurable.thread_id of the run, 0 before the first
    checkpoint,        \* self.checkpointer: the saved AgentState of each thread
    stream_out,        \* the chunks the generator of stream has yielded
    disposed,          \* self.executor: no (open), shutdown_waiting, shutdown, del
    neo4j_driver,      \* driver.py: the module global _neo4j_driver
    driver_call,       \* how the last call into driver.py ended
    pending_tool_calls, \* StreamHandler.pending_tool_calls
    last_iteration,    \* StreamHandler.last_iteration
    processed          \* the process_chunk calls made: chunk, raised, output

state == <<messages, iteration_count, start_time, errors>>
hist  == <<lastPass, reasoning_passes, tool_model_calls>>
session == <<caller, runs, thread, checkpoint, disposed>>
driver == <<neo4j_driver, driver_call>>
ui == <<pending_tool_calls, last_iteration, processed>>
vars  == <<config, phase, messages, iteration_count, start_time, errors, now,
           busy, fut, tn, cur, lastCall, lastPass, reasoning_passes,
           tool_model_calls, caller, runs, thread, checkpoint, stream_out,
           disposed, neo4j_driver, driver_call, pending_tool_calls,
           last_iteration, processed>>

\* ------------------------------------------------------------ configuration
ToolTimeouts == {0, 1}
WorkerCounts == {1, 2}

\* the configurations under which the loop is explored: every iteration and
\* time budget, one retry
LoopConfigs ==
    [max_iterations         : 1..MaxIterations,
     max_execution_time     : 1..MaxExecutionTime,
     tool_execution_timeout : ToolTimeouts,
     max_tool_retries       : {1},
     max_workers            : {1},
     system_message         : {FALSE}]

\* the configurations under which the tools node is explored: one turn, every
\* retry limit and pool size
RetryConfigs ==
    [max_iterations         : {1},
     max_execution_time     : {MaxExecutionTime},
     tool_execution_timeout : ToolTimeouts,
     max_tool_retries       : 0..MaxToolRetries,
     max_workers            : WorkerCounts,
     system_message         : {FALSE}]

\* the configurations under which stream is explored: one turn, and no retry
\* or the empty retry range of max_tool_retries = -1, which AgentConfig accepts
StreamConfigs ==
    [max_iterations         : {1},
     max_execution_time     : {MaxExecutionTime},
     tool_execution_timeout : ToolTimeouts,
     max_tool_retries       : {-1, 0},
     max_workers            : {1},
     system_message         : {FALSE}]

\* the configuration under which repeated invoke calls are explored: one turn,
\* tools run without timeout and without retry
RepeatConfigs ==
    [max_iterations         : {1},
     max_execution_time     : {MaxExecutionTime},
     tool_execution_timeout : {0},
     max_tool_retries       : {0},
     max_workers            : {1},
     system_message         : {FALSE}]

\* the configurations under which the system message is explored: the largest
\* iteration budget, tools run without timeout or retry, system_message set
\* (TRUE) or left None (FALSE)
PromptConfigs ==
    [max_iterations         : {MaxIterations},
     max_execution_time     : {MaxExecutionTime},
     tool_execution_timeout : {0},
     max_tool_retries       : {0},
     max_workers            : {1},
     system_message         : BOOLEAN]

\* the thread ids a caller may pass as configurable.thread_id
Threads == {1, 2}

\* a caller that calls invoke once
SingleInvoke ==
    {[api |-> "invoke", thread_ids |-> {1}, invokes |-> 1, disposes |-> FALSE,
      concurrent |-> FALSE]}

\* a caller that calls invoke twice, on the same or on another thread
RepeatedInvoke ==
    {[api |-> "invoke", thread_ids |-> Threads, invokes |-> 2, disposes |-> FALSE,
      concurrent |-> FALSE]}

\* a caller that consumes stream(..., stream_mode="updates") once
SingleStream ==
    {[api |-> "stream", thread_ids |-> {1}, invokes |-> 1, disposes |-> FALSE,
      concurrent |-> FALSE]}

\* a caller that calls invoke once and disposes of the controller, by
\* shutdown() or by dropping it, before or after the run
DisposingInvoke ==
    {[api |-> "invoke", thread_ids |-> {1}, invokes |-> 1, disposes |-> TRUE,
      concurrent |-> FALSE]}

\* the configuration under which disposal is explored: one turn, tools run on
\* the pool, no retry
DisposeConfigs ==
    [max_iterations         : {1},
     max_execution_time     : {MaxExecutionTime},
     tool_execution_timeout : {1},
     max_tool_retries       : {0},
     max_workers            : {1},
     system_message         : {FALSE}]

\* a caller that calls invoke once while other threads run invoke on the same
\* controller: their tool tasks go to the same executor
ConcurrentInvoke ==
    {[api |-> "invoke", thread_ids |-> {1}, invokes |-> 1, disposes |-> FALSE,
      concurrent |-> TRUE]}

\* the configurations under which concurrent runs are explored: one turn, tools
\* run on the pool, no retry, every pool size
ConcurrentConfigs ==
    [max_iterations         : {1},
     max_execution_time     : {MaxExecutionTime},
     tool_execution_timeout : {1},
     max_tool_retries       : {0},
     max_workers            : WorkerCounts,
     system_message         : {FALSE}]

\* a user of driver.py: the tool functions call get_neo4j_driver, ui/main.py
\* registers close_neo4j_driver to run at exit
DriverUser ==
    {[api |-> "driver", thread_ids |-> {1}, invokes |-> 0, disposes |-> FALSE,
      concurrent |-> FALSE]}

\* the chat page: it makes a StreamHandler and gives it the chunks of the stream
HandlerUser ==
    {[api |-> "handler", thread_ids |-> {1}, invokes |-> 0, disposes |-> FALSE,
      concurrent |-> FALSE]}

\* self.tools_by_name: the registry holds one tool
tools_by_name == {"author_papers"}
\* the names a model may put in a tool call: a registered one and a misspelt one
RequestableNames == {"author_papers", "author_papers_typo"}

\* exception classes: the module's TimeoutError, the ValueError of an unknown
\* tool, and what a tool or the model client raises itself
ToolErrors  == {"RuntimeError"}
ModelErrors == {"RuntimeError"}

None == [node |-> "none"]

\* ---------------------------------------------------------------- messages
HumanMessage ==
    [type |-> "human", kind |-> "input", content |-> "input",
     tool_calls |-> <<>>, tool_call_id |-> -1, name |-> ""]

\* SystemMessage(content=...): the configured one, or one the caller has put
\* in the history
SystemMessage(content) ==
    [type |-> "system", kind |-> "system", content |-> content,
     tool_calls |-> <<>>, tool_call_id |-> -1, name |-> ""]

AIMessage(kind, content, calls) ==
    [type |-> "ai", kind |-> kind, content |-> content,
     tool_calls |-> calls, tool_call_id |-> -1, name |-> ""]

ToolMessage(kind, tool_call) ==
    [type |-> "tool", kind |-> kind, content |-> kind,
     tool_calls |-> <<>>, tool_call_id |-> tool_call.id, name |-> tool_call.name]

\* the tool calls of one model response: ids are unique within the run
ToolCalls(iteration, names) ==
    [i \in 1..Len(names) |->
        [id |-> iteration * (MaxExtraCalls + 2) + i, name |-> names[i]]]

\* the tool calls beyond the first of each AI message among msgs[1..n]
RECURSIVE ExtraCalls(_, _)
ExtraCalls(msgs, n) ==
    IF n = 0 THEN 0
    ELSE ExtraCalls(msgs, n - 1)
            + (IF Len(msgs[n].tool_calls) > 1 THEN Len(msgs[n].tool_calls) - 1 ELSE 0)

\* the name lists a model response may carry after the history msgs
NameSeqs(msgs) ==
    UNION {[1..n -> RequestableNames] :
              n \in 0..(1 + MaxExtraCalls - ExtraCalls(msgs, Len(msgs)))}

\* ------------------------------------------------------------ state updates
\* add_messages reducer of AgentState.messages: new messages are appended
AddMessages(left, right) == left \o right

\* a node's return value applied to the channels of AgentState: messages has
\* the add_messages reducer, the other keys hold the last value written
UpdMessages(u) ==
    IF "messages" \in DOMAIN u THEN AddMessages(messages, u.messages) ELSE messages
UpdIterationCount(u) ==
    IF "iteration_count" \in DOMAIN u THEN u.iteration_count ELSE iteration_count
UpdErrors(u) ==
    IF "errors" \in DOMAIN u THEN u.errors ELSE errors

Clock(t) == IF t > MaxTime THEN MaxTime ELSE t

\* -------------------------------------------------------------- agent node
GenerateSummary(outcome) ==
    IF outcome = "ok" THEN "summary" ELSE "apology"

HandleAgentIterOverrun(iteration, summaryOutcome) ==
    [messages        |-> <<AIMessage("iter_overrun", GenerateSummary(summaryOutcome), <<>>)>>,
     iteration_count |-> iteration + 1]

\* mutant: the time-exceeded branch forgets to count the pass
HandleAgentTimeoutNoCount(iteration, summaryOutcome) ==
    [messages        |-> <<AIMessage("time_limit", GenerateSummary(summaryOutcome), <<>>)>>,
     iteration_count |-> iteration]

HandleAgentTimeout(iteration, summaryOutcome) ==
    [messages        |-> <<AIMessage("time_limit", GenerateSummary(summaryOutcome), <<>>)>>,
     iteration_count |-> iteration + 1]

\* mutant: the iteration budget is compared with the number of the pass, not
\* with the number of passes completed
IterOverrunEarly(iteration) == iteration + 1 >= config.max_iterations

\* mutant: the iteration budget is compared with > instead of >=
IterOverrunOffByOne(iteration) == iteration > config.max_iterations

IterOverrun(iteration) == iteration >= config.max_iterations

\* mutant: the time budget is compared with >= instead of >
TimeExceededInclusive(elapsed) == elapsed >= config.max_execution_time

TimeExceeded(elapsed) == elapsed > config.max_execution_time

\* mutant: the time budget is tested before the iteration budget
AgentBranchTimeFirst(iteration, elapsed) ==
    IF TimeExceeded(elapsed) THEN "time_limit"
    ELSE IF IterOverrun(iteration) THEN "iter_overrun"
    ELSE "normal"

AgentBranch(iteration, elapsed) ==
    IF IterOverrun(iteration) THEN "iter_overrun"
    ELSE IF TimeExceeded(elapsed) THEN "time_limit"
    ELSE "normal"

\* mutant: the except clause of _agent_node names one exception class only
AgentExceptCatchesNarrow(exc) == exc = "ValueError"

\* the except clause of _agent_node: every model error is an Exception
AgentExceptCatches(exc) == exc \in ModelErrors

\* mutant: the normal branch forgets to count the pass
AgentResponseNoCount(iteration, names) ==
    [messages        |-> <<AIMessage("response", "answer", ToolCalls(iteration, names))>>,
     iteration_count |-> iteration]

AgentResponse(iteration, names) ==
    [messages        |-> <<AIMessage("response", "answer", ToolCalls(iteration, names))>>,
     iteration_count |-> iteration + 1]

AgentErrorRecovery(iteration, exc) ==
    [messages        |-> <<AIMessage("error", "diagnostic", <<>>)>>,
     iteration_count |-> iteration + 1,
     errors          |-> <<[node |-> "agent", error_type |-> exc,
                            iteration |-> iteration]>>]

\* ------------------------------------------------------------------ router
HasToolCalls(msg) == msg.type = "ai"

\* mutant: the router does not look whether the tool-call list is empty
RouteAfterAgentNoEmptyCheck(msgs) ==
    IF ~HasToolCalls(msgs[Len(msgs)]) THEN "end" ELSE "tools"

RouteAfterAgent(msgs) ==
    LET last_message == msgs[Len(msgs)] IN
    IF ~HasToolCalls(last_message) THEN "end"
    ELSE IF Len(last_message.tool_calls) = 0 THEN "end"
    ELSE "tools"

\* ------------------------------------------------------------------- Init
IdleTn == [idx |-> 0, attempt |-> 0, tool_messages |-> <<>>, errors |-> <<>>]
EmptyCur == [outcomes |-> <<>>, sleeps |-> <<>>, invoked |-> 0]
NoCall == [call |-> [id |-> -1, name |-> ""], outcomes |-> <<>>, sleeps |-> <<>>,
           invoked |-> 0, msg |-> HumanMessage, err |-> None]
NoPass == [branch |-> "none", iteration |-> 0, elapsed |-> 0, summary |-> "none",
           history |-> <<>>, model_input |-> <<>>]

\* the channels of a thread the checkpointer holds nothing for
EmptyState ==
    [messages |-> <<>>, iteration_count |-> 0, start_time |-> 0, errors |-> <<>>]

\* the checkpointer given to __init__: none or an empty one, or one that holds
\* for thread 1 a history with a System message of the caller
EmptyStore == [t \in Threads |-> EmptyState]
SeededStore ==
    [t \in Threads |->
        IF t = 1 THEN [EmptyState EXCEPT !.messages = <<SystemMessage("caller")>>]
        ELSE EmptyState]

\* no call into driver.py has been made
NoDriverCall == [op |-> "none", raised |-> FALSE, returned |-> "None"]

InitWith(configs, callers, stores) ==
    /\ pending_tool_calls = {}
    /\ last_iteration = 0
    /\ processed = <<>>
    /\ neo4j_driver = "None"
    /\ driver_call = NoDriverCall
    /\ config \in configs
    /\ caller \in callers
    /\ runs = 0
    /\ thread = 0
    /\ checkpoint \in stores
    /\ stream_out = <<>>
    /\ disposed = "no"
    /\ phase = "idle"
    /\ messages = <<>>
    /\ iteration_count = 0
    /\ start_time = 0
    /\ errors = <<>>
    /\ now = 0
    /\ busy = 0
    /\ fut = "none"
    /\ tn = IdleTn
    /\ cur = EmptyCur
    /\ lastCall = NoCall
    /\ lastPass = NoPass
    /\ reasoning_passes = 0
    /\ tool_model_calls = 0

\* initial_state of invoke and of stream
InitialState ==
    [messages |-> <<HumanMessage>>, iteration_count |-> 0, start_time |-> now,
     errors |-> <<>>]

\* mutant: the graph is compiled without a checkpointer
LoadCheckpointNone(saved, thread_id) == EmptyState

\* the graph is compiled with self.checkpointer, the caller's or a MemorySaver:
\* a run starts from the state saved for its thread
LoadCheckpoint(saved, thread_id) == saved[thread_id]

\* invoke / stream: the state of the thread is loaded, initial_state is written
\* to its channels (messages through add_messages, the others replaced) and
\* START leads to the agent node. The checkpoint of the thread that ran before
\* is the state that run has left.
Invoke ==
    /\ phase \in {"idle", "done"}
    /\ runs < caller.invokes
    /\ disposed \in {"no", "shutdown"}
    /\ \E thread_id \in caller.thread_ids :
         LET saved  == IF thread = 0 THEN checkpoint
                       ELSE [checkpoint EXCEPT ![thread] =
                               [messages |-> messages,
                                iteration_count |-> iteration_count,
                                start_time |-> start_time,
                                errors |-> errors]]
             loaded == LoadCheckpoint(saved, thread_id)
         IN  /\ messages' = AddMessages(loaded.messages, InitialState.messages)
             /\ iteration_count' = InitialState.iteration_count
             /\ start_time' = InitialState.start_time
             /\ errors' = InitialState.errors
             /\ thread' = thread_id
             /\ checkpoint' = saved
    /\ runs' = runs + 1
    /\ phase' = "agent"
    /\ stream_out' = <<>>
    /\ lastCall' = NoCall
    /\ lastPass' = NoPass
    /\ reasoning_passes' = 0
    /\ tool_model_calls' = 0
    /\ UNCHANGED <<config, driver, ui, caller, now, busy, fut, tn, cur, disposed>>

\* an exception leaves the graph: invoke logs it and raises it again, stream
\* logs it, yields an error chunk and ends
ErrorChunk == [node |-> "error", messages |-> <<>>]
GraphRaises ==
    /\ phase' = IF caller.api = "stream" THEN "error_yielded" ELSE "aborted"
    /\ stream_out' = IF caller.api = "stream" THEN Append(stream_out, ErrorChunk)
                     ELSE stream_out

\* mutant: stream passes on the chunks of the agent node only
StreamYieldAgentOnly(out, node, update) ==
    IF caller.api = "stream" /\ node = "agent"
    THEN Append(out, [node |-> node, messages |-> update.messages])
    ELSE out

\* the loop of stream: each chunk of graph.stream, one per completed node under
\* stream_mode "updates", is yielded as it comes
StreamYield(out, node, update) ==
    IF caller.api = "stream"
    THEN Append(out, [node |-> node, messages |-> update.messages])
    ELSE out

Tick ==
    /\ phase \in {"agent", "route", "tools"}
    /\ now < MaxTime
    /\ now' = now + 1
    /\ UNCHANGED <<config, driver, ui, phase, state, busy, fut, tn, cur, lastCall, hist>>
    /\ UNCHANGED <<session, stream_out>>


\* any(isinstance(msg, SystemMessage) for msg in messages)
HasSystem(msgs) == \E j \in 1..Len(msgs) : msgs[j].type = "system"

\* mutant: the system message is prepended on every iteration
PrependSystemEveryIteration(msgs, iteration) ==
    IF config.system_message /\ ~HasSystem(msgs)
    THEN <<SystemMessage("configured")>> \o msgs
    ELSE msgs

\* the list _agent_node hands to llm_with_tools.invoke: the configured system
\* message goes before the history on the first iteration, if the history
\* holds no System message
PrependSystem(msgs, iteration) ==
    IF config.system_message /\ iteration = 0 /\ ~HasSystem(msgs)
    THEN <<SystemMessage("configured")>> \o msgs
    ELSE msgs

\* the request _generate_summary puts after the history
SummaryPrompt ==
    [type |-> "human", kind |-> "summary_prompt", content |-> "summarize",
     tool_calls |-> <<>>, tool_call_id |-> -1, name |-> ""]

\* mutant: the system message is prepended before the budgets are tested
SummaryInputWithSystem(msgs, iteration) ==
    Append(PrependSystemEveryIteration(msgs, iteration), SummaryPrompt)

\* the list _generate_summary hands to llm.invoke in the forced branches: the
\* history as the state holds it, then the summary request
SummaryInput(msgs, iteration) == Append(msgs, SummaryPrompt)

\* ------------------------------------------------------- the agent node step
SummaryOutcomes == {"ok", "raise"}

\* what llm_with_tools.invoke does: return a response that requests the tools
\* names (none for a plain answer), or raise
ModelOutcomes ==
    [raised : {FALSE}, names : NameSeqs(messages), exc : {""}]
        \cup [raised : {TRUE}, names : {<<>>}, exc : ModelErrors]

\* the return value of _agent_node
AgentNodeUpdate(iteration, elapsed, s, r) ==
    CASE AgentBranch(iteration, elapsed) = "iter_overrun" ->
            HandleAgentIterOverrun(iteration, s)
      [] AgentBranch(iteration, elapsed) = "time_limit" ->
            HandleAgentTimeout(iteration, s)
      [] OTHER ->
            IF r.raised THEN AgentErrorRecovery(iteration, r.exc)
            ELSE AgentResponse(iteration, r.names)

AgentNode ==
    /\ phase = "agent"
    /\ \E s \in SummaryOutcomes, r \in ModelOutcomes :
        LET iteration  == iteration_count
            elapsed    == now - start_time
            br         == AgentBranch(iteration, elapsed)
            propagates == br = "normal" /\ r.raised /\ ~AgentExceptCatches(r.exc)
            update     == AgentNodeUpdate(iteration, elapsed, s, r)
        IN  /\ tool_model_calls' =
                  IF br = "normal" THEN tool_model_calls + 1 ELSE tool_model_calls
            /\ lastPass' =
                  [branch    |-> IF br = "normal" /\ r.raised THEN "model_error" ELSE br,
                   iteration |-> iteration,
                   elapsed   |-> elapsed,
                   summary   |-> IF br = "normal" THEN "none" ELSE s,
                   history   |-> messages,
                   model_input |->
                       IF br = "normal" THEN PrependSystem(messages, iteration)
                       ELSE SummaryInput(messages, iteration)]
            /\ IF propagates
                  THEN /\ GraphRaises
                       /\ UNCHANGED <<state, reasoning_passes>>
                  ELSE /\ phase' = "route"
                       /\ stream_out' = StreamYield(stream_out, "agent", update)
                       /\ messages' = UpdMessages(update)
                       /\ iteration_count' = UpdIterationCount(update)
                       /\ errors' = UpdErrors(update)
                       /\ reasoning_passes' = reasoning_passes + 1
                       /\ UNCHANGED start_time
    /\ lastCall' = NoCall
    /\ UNCHANGED <<config, driver, ui, now, busy, fut, tn, cur, session>>

\* the conditional edge after the agent node
Route ==
    /\ phase = "route"
    /\ phase' = IF RouteAfterAgent(messages) = "tools" THEN "tools" ELSE "done"
    /\ UNCHANGED <<config, driver, ui, state, now, busy, fut, tn, cur, lastCall, hist>>
    /\ UNCHANGED <<session, stream_out>>

\* -------------------------------------------------------------- tools node
last_message == messages[Len(messages)]
CurCall == last_message.tool_calls[tn.idx]

\* range(max_tool_retries + 1) is empty: the retry loop makes no attempt and
\* returns None, and unpacking it in _tools_node raises TypeError
RetryRangeEmpty == config.max_tool_retries + 1 <= 0

\* _tools_node up to the first attempt of its loop
ToolsNodeEnter ==
    /\ phase = "tools"
    /\ tn.idx = 0
    /\ IF ~HasToolCalls(last_message) \/ Len(last_message.tool_calls) = 0
          THEN /\ phase' = "agent"
               /\ tn' = tn
               /\ stream_out' = StreamYield(stream_out, "tools", [messages |-> <<>>])
          ELSE IF RetryRangeEmpty
          THEN /\ GraphRaises
               /\ tn' = tn
          ELSE /\ phase' = phase
               /\ tn' = [idx |-> 1, attempt |-> 0, tool_messages |-> <<>>,
                         errors |-> <<>>]
               /\ UNCHANGED stream_out
    /\ lastPass' = NoPass
    /\ UNCHANGED <<config, driver, ui, state, now, busy, fut, cur, lastCall,
                   reasoning_passes, tool_model_calls, session>>

\* mutant: the registry lookup raises outside the try block
ExceptHandlerMisses(exc) ==
    IF exc = "TimeoutError" THEN "timeout"
    ELSE IF exc \in ToolErrors THEN "exception"
    ELSE "none"

\* which except clause of _execute_single_tool_call takes an exception
ExceptHandler(exc) ==
    IF exc = "TimeoutError" THEN "timeout" ELSE "exception"

\* the return value of _execute_single_tool_call for the outcome of the attempt:
\* "ok", or the class of the exception raised inside the try block
ExecuteSingleToolCall(tool_call, attempt_number, outcome) ==
    IF outcome = "ok"
    THEN [raised |-> FALSE, msg |-> ToolMessage("result", tool_call), err |-> None]
    ELSE CASE ExceptHandler(outcome) = "timeout" ->
                [raised |-> FALSE,
                 msg |-> ToolMessage("timed_out", tool_call),
                 err |-> [node |-> "tools", tool |-> tool_call.name,
                          error_type |-> "TimeoutError",
                          attempts |-> config.max_tool_retries + 1]]
           [] ExceptHandler(outcome) = "exception" ->
                [raised |-> FALSE,
                 msg |-> ToolMessage("failed", tool_call),
                 err |-> [node |-> "tools", tool |-> tool_call.name,
                          error_type |-> outcome,
                          attempts |-> config.max_tool_retries + 1]]
           [] OTHER ->
                [raised |-> TRUE, msg |-> HumanMessage, err |-> None]

\* mutant: linear instead of exponential backoff
BackoffWaitLinear(attempt) == attempt + 1

\* wait_time of the retry loop, in half seconds: 0.5 * 2^attempt seconds
BackoffWait(attempt) == 2 ^ attempt

\* mutant: a success is returned only from the last attempt
ReturnsSuccessOnLast(error_record, attempt) ==
    error_record = None /\ attempt = config.max_tool_retries

\* the retry loop returns at once: the attempt left no error record
ReturnsSuccess(error_record, attempt) == error_record = None

\* the retry loop sleeps and goes round again after this failed attempt
RetryAfter(attempt) == attempt < config.max_tool_retries

\* mutant: the Tool messages are returned last call first
ToolsNodeUpdateReversed(tool_messages, errs) ==
    [messages |-> [i \in 1..Len(tool_messages) |->
                      tool_messages[Len(tool_messages) + 1 - i]],
     errors |-> errs]

\* the return value of _tools_node
ToolsNodeUpdate(tool_messages, errs) ==
    [messages |-> tool_messages, errors |-> errs]

\* _execute_tool_call_with_retries returns (msg, err): _tools_node collects the
\* pair and goes to the next tool call, or returns after the last one
FinishCall(msg, err, cur1, now1) ==
    LET tms == Append(tn.tool_messages, msg)
        ers == IF err /= None THEN Append(tn.errors, err) ELSE tn.errors
    IN  /\ lastCall' = [call |-> CurCall, outcomes |-> cur1.outcomes,
                        sleeps |-> cur1.sleeps, invoked |-> cur1.invoked,
                        msg |-> msg, err |-> err]
        /\ cur' = EmptyCur
        /\ now' = now1
        /\ IF tn.idx < Len(last_message.tool_calls)
              THEN /\ tn' = [idx |-> tn.idx + 1, attempt |-> 0,
                             tool_messages |-> tms, errors |-> ers]
                   /\ UNCHANGED <<phase, state, stream_out>>
              ELSE /\ tn' = IdleTn
                   /\ phase' = "agent"
                   /\ stream_out' = StreamYield(stream_out, "tools",
                                                ToolsNodeUpdate(tms, ers))
                   /\ messages' = UpdMessages(ToolsNodeUpdate(tms, ers))
                   /\ iteration_count' = UpdIterationCount(ToolsNodeUpdate(tms, ers))
                   /\ errors' = UpdErrors(ToolsNodeUpdate(tms, ers))
                   /\ UNCHANGED start_time

\* mutant: the Tool message of every failed attempt is collected, not only that
\* of the last one
AfterAttemptKeepsMessages(outcome, started, now1) ==
    LET res  == ExecuteSingleToolCall(CurCall, tn.attempt, outcome)
        cur1 == [outcomes |-> Append(cur.outcomes, outcome),
                 sleeps   |-> cur.sleeps,
                 invoked  |-> cur.invoked + (IF started THEN 1 ELSE 0)]
    IN  IF res.raised
        THEN /\ GraphRaises
             /\ cur' = cur1
             /\ now' = now1
             /\ UNCHANGED <<state, tn, lastCall>>
        ELSE IF ReturnsSuccess(res.err, tn.attempt)
        THEN FinishCall(res.msg, None, cur1, now1)
        ELSE IF RetryAfter(tn.attempt)
        THEN /\ cur' = [cur1 EXCEPT !.sleeps = Append(@, BackoffWait(tn.attempt))]
             /\ now' = Clock(now1 + BackoffWait(tn.attempt))
             /\ tn' = [tn EXCEPT !.attempt = @ + 1,
                                 !.tool_messages = Append(@, res.msg)]
             /\ lastCall' = NoCall
             /\ UNCHANGED <<phase, state, stream_out>>
        ELSE FinishCall(res.msg, res.err, cur1, now1)

\* one attempt of the retry loop has ended with outcome; started tells whether
\* tool.invoke began to run, now1 is the time at which the attempt ended
AfterAttempt(outcome, started, now1) ==
    LET res  == ExecuteSingleToolCall(CurCall, tn.attempt, outcome)
        cur1 == [outcomes |-> Append(cur.outcomes, outcome),
                 sleeps   |-> cur.sleeps,
                 invoked  |-> cur.invoked + (IF started THEN 1 ELSE 0)]
    IN  IF res.raised
        THEN /\ GraphRaises
             /\ cur' = cur1
             /\ now' = now1
             /\ UNCHANGED <<state, tn, lastCall>>
        ELSE IF ReturnsSuccess(res.err, tn.attempt)
        THEN FinishCall(res.msg, None, cur1, now1)
        ELSE IF RetryAfter(tn.attempt)
        THEN /\ cur' = [cur1 EXCEPT !.sleeps = Append(@, BackoffWait(tn.attempt))]
             /\ now' = Clock(now1 + BackoffWait(tn.attempt))
             /\ tn' = [tn EXCEPT !.attempt = @ + 1]
             /\ lastCall' = NoCall
             /\ UNCHANGED <<phase, state, stream_out>>
        ELSE FinishCall(res.msg, res.err, cur1, now1)

InCall == phase = "tools" /\ tn.idx > 0 /\ fut = "none"

\* the tool name is not in tools_by_name: ValueError inside the try block
AttemptUnknown ==
    /\ InCall
    /\ CurCall.name \notin tools_by_name
    /\ AfterAttempt("ValueError", FALSE, now)
    /\ UNCHANGED <<config, driver, ui, busy, fut, hist, session>>

\* mutant: a timeout of zero is handed to the executor like a positive one
NoTimeoutNegativeOnly(timeout_seconds) == timeout_seconds < 0

\* the test of _execute_tool_with_timeout for running the tool without timeout
NoTimeout(timeout_seconds) == timeout_seconds <= 0

\* _execute_tool_with_timeout without a timeout: tool.invoke on the caller
AttemptDirect ==
    /\ InCall
    /\ CurCall.name \in tools_by_name
    /\ NoTimeout(config.tool_execution_timeout)
    /\ \E outcome \in {"ok"} \cup ToolErrors : AfterAttempt(outcome, TRUE, now)
    /\ UNCHANGED <<config, driver, ui, busy, fut, hist, session>>

\* the tasks executing on the workers of self.executor: the abandoned ones,
\* those of concurrent runs, and the one future.result waits for
Executing == busy + (IF fut = "running" THEN 1 ELSE 0)

\* mutant: the pool starts one worker more than max_workers
WorkerFreeInclusive(n) == n <= config.max_workers

\* ThreadPoolExecutor(max_workers=...): a task starts only while fewer than
\* max_workers tasks are executing
WorkerFree(n) == n < config.max_workers

\* mutant: the task is submitted and the call returns without waiting for
\* future.result
AttemptSubmitNoWait ==
    /\ InCall
    /\ CurCall.name \in tools_by_name
    /\ ~NoTimeout(config.tool_execution_timeout)
    /\ fut' = IF WorkerFree(Executing) THEN "running" ELSE "queued"
    /\ FinishCall(ToolMessage("result", CurCall), None, cur, now)
    /\ UNCHANGED <<config, driver, ui, busy, hist, session>>

\* executor.submit: the task starts on a free worker or waits in the queue;
\* after executor.shutdown submit raises RuntimeError, inside the try block of
\* _execute_single_tool_call
AttemptSubmit ==
    /\ InCall
    /\ CurCall.name \in tools_by_name
    /\ ~NoTimeout(config.tool_execution_timeout)
    /\ IF disposed /= "no"
          THEN /\ AfterAttempt("RuntimeError", FALSE, now)
               /\ UNCHANGED fut
          ELSE /\ fut' = IF WorkerFree(Executing) THEN "running" ELSE "queued"
               /\ lastCall' = NoCall
               /\ UNCHANGED <<phase, state, now, tn, cur, stream_out>>
    /\ UNCHANGED <<config, driver, ui, busy, hist, session>>

\* a worker freed by an abandoned task takes the queued task
WorkerPickup ==
    /\ phase = "tools"
    /\ fut = "queued"
    /\ WorkerFree(Executing)
    /\ fut' = "running"
    /\ UNCHANGED <<config, driver, ui, phase, state, now, busy, tn, cur, lastCall, hist,
                   session, stream_out>>

\* future.result returns or re-raises within the timeout
AttemptComplete ==
    /\ phase = "tools"
    /\ fut = "running"
    /\ fut' = "none"
    /\ \E outcome \in {"ok"} \cup ToolErrors : AfterAttempt(outcome, TRUE, now)
    /\ UNCHANGED <<config, driver, ui, busy, hist, session>>

\* mutant: the timeout runs from the start of the task, so that a task waiting
\* in the queue is never timed out
AttemptTimeoutRunningOnly ==
    /\ phase = "tools"
    /\ fut = "running"
    /\ fut' = "none"
    /\ busy' = busy + 1
    /\ AfterAttempt("TimeoutError", TRUE,
                    Clock(now + config.tool_execution_timeout))
    /\ UNCHANGED <<config, driver, ui, hist, session>>

\* mutant: the timeout stops the running task and frees its worker
AttemptTimeoutKillsTask ==
    /\ phase = "tools"
    /\ fut \in {"queued", "running"}
    /\ fut' = "none"
    /\ busy' = busy
    /\ AfterAttempt("TimeoutError", fut = "running",
                    Clock(now + config.tool_execution_timeout))
    /\ UNCHANGED <<config, driver, ui, hist, session>>

\* mutant: the timeout leaves the queued task in the queue, where it starts
\* once a worker is free and runs with nobody waiting for it
AttemptTimeoutNoCancel ==
    /\ phase = "tools"
    /\ fut \in {"queued", "running"}
    /\ fut' = "none"
    /\ busy' = busy + 1
    /\ AfterAttempt("TimeoutError", TRUE,
                    Clock(now + config.tool_execution_timeout))
    /\ UNCHANGED <<config, driver, ui, hist, session>>

\* future.result times out: a queued task is cancelled, a running one keeps
\* its worker; TimeoutError is raised to _execute_single_tool_call
AttemptTimeout ==
    /\ phase = "tools"
    /\ fut \in {"queued", "running"}
    /\ fut' = "none"
    /\ busy' = IF fut = "running" THEN busy + 1 ELSE busy
    /\ AfterAttempt("TimeoutError", fut = "running",
                    Clock(now + config.tool_execution_timeout))
    /\ UNCHANGED <<config, driver, ui, hist, session>>

\* a task abandoned after a timeout runs to its end and frees its worker
AbandonedFinish ==
    /\ busy > 0
    /\ busy' = busy - 1
    /\ UNCHANGED <<config, driver, ui, phase, state, now, fut, tn, cur, lastCall, hist,
                   session, stream_out>>

\* a tool task of a concurrent run of the same controller starts on a free
\* worker; it ends as an abandoned task does
ConcurrentRunTask ==
    /\ caller.concurrent
    /\ disposed = "no"
    /\ ~NoTimeout(config.tool_execution_timeout)
    /\ WorkerFree(Executing)
    /\ busy' = busy + 1
    /\ UNCHANGED <<config, driver, ui, phase, state, now, fut, tn, cur, lastCall, hist,
                   session, stream_out>>

\* -------------------------------------------------------------- driver.py
\* what GraphDatabase.driver and verify_connectivity may do
DriverOutcomes == {"ok", "raise"}

\* get_neo4j_driver: the cache after the call, whether the call raised, and
\* the driver it returned.  The global is assigned before verify_connectivity
\* runs, and the except clause logs and raises again without resetting it.
GetNeo4jDriver(cache, uri, password, construct, verify) ==
    IF cache /= "None"
    THEN [cache |-> cache, raised |-> FALSE, returned |-> cache]
    ELSE IF ~uri \/ ~password
    THEN [cache |-> cache, raised |-> TRUE, returned |-> "None"]
    ELSE IF construct = "raise"
    THEN [cache |-> cache, raised |-> TRUE, returned |-> "None"]
    ELSE IF verify = "raise"
    THEN [cache |-> "unverified", raised |-> TRUE, returned |-> "None"]
    ELSE [cache |-> "verified", raised |-> FALSE, returned |-> "verified"]

\* a call of get_neo4j_driver under some environment and some server state
GetDriver ==
    /\ caller.api = "driver"
    /\ \E uri \in BOOLEAN, password \in BOOLEAN,
          construct \in DriverOutcomes, verify \in DriverOutcomes :
         LET r == GetNeo4jDriver(neo4j_driver, uri, password, construct, verify)
         IN  /\ neo4j_driver' = r.cache
             /\ driver_call' = [op |-> "get", raised |-> r.raised,
                                returned |-> r.returned]
    /\ UNCHANGED <<config, ui, phase, state, now, busy, fut, tn, cur, lastCall,
                   hist, session, stream_out>>

\* close_neo4j_driver: closes and forgets the cached driver, if there is one;
\* if close() raises the global keeps the driver
CloseNeo4jDriver(cache, close) ==
    IF cache = "None" THEN [cache |-> "None", raised |-> FALSE]
    ELSE IF close = "raise" THEN [cache |-> cache, raised |-> TRUE]
    ELSE [cache |-> "None", raised |-> FALSE]

CloseDriver ==
    /\ caller.api = "driver"
    /\ \E close \in DriverOutcomes :
         LET r == CloseNeo4jDriver(neo4j_driver, close)
         IN  /\ neo4j_driver' = r.cache
             /\ driver_call' = [op |-> "close", raised |-> r.raised,
                                returned |-> "None"]
    /\ UNCHANGED <<config, ui, phase, state, now, busy, fut, tn, cur, lastCall,
                   hist, session, stream_out>>

\* ------------------------------------------------------- stream_handler.py
\* what process_chunk returns is a text made of blocks; a block is kept as its
\* kind and the tool-call id or iteration number it shows
Block(kind, id) == [kind |-> kind, id |-> id]

\* the id for which the handler writes "unknown"
UnknownId == -1

\* _format_agent_tool_calls: a block per tool call, its id added to
\* pending_tool_calls
FormatAgentToolCalls(pending, message) ==
    [pending |-> pending \cup {message.tool_calls[i].id :
                                  i \in 1..Len(message.tool_calls)},
     output  |-> [i \in 1..Len(message.tool_calls) |->
                     Block("tool_call", message.tool_calls[i].id)]]

\* error.get("tool_call_id", "unknown")
ErrorToolId(error) ==
    IF "tool_call_id" \in DOMAIN error THEN error.tool_call_id ELSE UnknownId

\* _format_tool_errors: a block per error record, the id it names discarded
\* from pending_tool_calls; no thinking message
FormatToolErrors(pending, errs) ==
    [pending |-> pending \ {ErrorToolId(errs[i]) : i \in 1..Len(errs)},
     output  |-> [i \in 1..Len(errs) |-> Block("tool_error", ErrorToolId(errs[i]))]]

\* _format_tool_messages: a block per Tool message, its tool_call_id discarded
\* from pending_tool_calls, then the next thinking message if nothing is pending
FormatToolMessages(pending, last, msgs) ==
    LET left == pending \ {msgs[i].tool_call_id : i \in 1..Len(msgs)}
        out  == [i \in 1..Len(msgs) |-> Block("tool_result", msgs[i].tool_call_id)]
    IN  [pending |-> left,
         output  |-> IF left = {} THEN Append(out, Block("thinking", last + 1))
                     ELSE out]

\* _handle_agent_chunk: reads iteration_count, messages and token_usage of the
\* update (KeyError if one is missing), then formats the tool calls or the
\* final answer
HandleAgentChunk(pending, last, chunk) ==
    IF ~chunk.token_usage
    THEN [raised |-> TRUE, pending |-> pending, last |-> last, output |-> <<>>]
    ELSE IF chunk.messages = <<>>
    THEN [raised |-> FALSE, pending |-> pending, last |-> last, output |-> <<>>]
    ELSE LET message == chunk.messages[1]
             f == FormatAgentToolCalls(pending, message)
         IN  IF message.tool_calls /= <<>>
             THEN [raised |-> FALSE, pending |-> f.pending,
                   last |-> chunk.iteration_count, output |-> f.output]
             ELSE IF message.content /= ""
             THEN [raised |-> FALSE, pending |-> pending,
                   last |-> chunk.iteration_count,
                   output |-> <<Block("final", chunk.iteration_count)>>]
             ELSE [raised |-> TRUE, pending |-> pending,
                   last |-> chunk.iteration_count, output |-> <<>>]

\* _handle_tools_chunk: the error records if there are any, else the Tool
\* messages
HandleToolsChunk(pending, last, chunk) ==
    IF chunk.errors /= <<>>
    THEN LET f == FormatToolErrors(pending, chunk.errors)
         IN  [raised |-> FALSE, pending |-> f.pending, last |-> last,
              output |-> f.output]
    ELSE IF chunk.messages /= <<>>
    THEN LET f == FormatToolMessages(pending, last, chunk.messages)
         IN  [raised |-> FALSE, pending |-> f.pending, last |-> last,
              output |-> f.output]
    ELSE [raised |-> TRUE, pending |-> pending, last |-> last, output |-> <<>>]

\* process_chunk
ProcessChunkResult(pending, last, chunk) ==
    IF chunk.node = "agent" THEN HandleAgentChunk(pending, last, chunk)
    ELSE IF chunk.node = "tools" THEN HandleToolsChunk(pending, last, chunk)
    ELSE [raised |-> TRUE, pending |-> pending, last |-> last, output |-> <<>>]

\* the "updates" chunk of an agent stage that asks for the tools names (none
\* for a final answer); token_usage tells whether the update has that key
AgentChunk(iteration, names, token_usage) ==
    [node |-> "agent", iteration_count |-> iteration + 1,
     messages |-> <<AIMessage("response", "answer", ToolCalls(iteration, names))>>,
     errors |-> <<>>, token_usage |-> token_usage]

\* the error records of the calls in failed, in call order
RECURSIVE FailedRecords(_, _, _)
FailedRecords(calls, failed, n) ==
    IF n = 0 THEN <<>>
    ELSE IF n \in failed
    THEN Append(FailedRecords(calls, failed, n - 1),
                ExecuteSingleToolCall(calls[n], 0, "RuntimeError").err)
    ELSE FailedRecords(calls, failed, n - 1)

\* the "updates" chunk of the tools stage that ran calls, of which those at the
\* positions in failed ended in an error record
ToolsChunk(calls, failed) ==
    [node |-> "tools", iteration_count |-> 0,
     messages |-> [i \in 1..Len(calls) |->
                     ToolMessage(IF i \in failed THEN "failed" ELSE "result",
                                 calls[i])],
     errors |-> FailedRecords(calls, failed, Len(calls)), token_usage |-> FALSE]

\* the chunks that may come next in a stream: an agent chunk at the start and
\* after a tools chunk, the tools chunk of its calls after an agent chunk that
\* asked for tools, nothing after a final answer; the handler shows the tool
\* names and does not branch on them, so one name stands for all
ChunksAfter(done) ==
    LET agents == Len(SelectSeq(done, LAMBDA p : p.chunk.node = "agent"))
        lastc  == done[Len(done)].chunk
    IN  IF done = <<>> \/ lastc.node = "tools"
        THEN {AgentChunk(agents, names, t) :
                 names \in {[i \in 1..n |-> "author_papers"] :
                              n \in 0..(1 + MaxExtraCalls)},
                 t \in BOOLEAN}
        ELSE IF lastc.messages[1].tool_calls /= <<>>
        THEN {ToolsChunk(lastc.messages[1].tool_calls, failed) :
                 failed \in SUBSET (1..Len(lastc.messages[1].tool_calls))}
        ELSE {}

\* one round of the loop of the chat page: the next chunk of the stream goes
\* to process_chunk; an exception of process_chunk ends the loop
ProcessChunk ==
    /\ caller.api = "handler"
    /\ Len(processed) < MaxChunks
    /\ processed /= <<>> => ~processed[Len(processed)].raised
    /\ \E chunk \in ChunksAfter(processed) :
         LET r == ProcessChunkResult(pending_tool_calls, last_iteration, chunk)
         IN  /\ pending_tool_calls' = r.pending
             /\ last_iteration' = r.last
             /\ processed' = Append(processed, [chunk |-> chunk,
                                                raised |-> r.raised,
                                                output |-> r.output])
    /\ UNCHANGED <<config, driver, phase, state, now, busy, fut, tn, cur, lastCall,
                   hist, session, stream_out>>

\* no run is in progress, and the caller is one that disposes of the controller
Idle ==
    /\ phase \in {"idle", "done", "aborted", "error_yielded"}
    /\ caller.disposes

\* shutdown(): executor.shutdown(wait=True) closes the pool and waits
Shutdown ==
    /\ Idle
    /\ disposed = "no"
    /\ disposed' = "shutdown_waiting"
    /\ UNCHANGED <<config, driver, ui, phase, state, now, busy, fut, tn, cur, lastCall, hist,
                   caller, runs, thread, checkpoint, stream_out>>

\* executor.shutdown(wait=True) returns once every worker has ended
ShutdownReturns ==
    /\ disposed = "shutdown_waiting"
    /\ busy = 0
    /\ disposed' = "shutdown"
    /\ UNCHANGED <<config, driver, ui, phase, state, now, busy, fut, tn, cur, lastCall, hist,
                   caller, runs, thread, checkpoint, stream_out>>

\* __del__: executor.shutdown(wait=False) closes the pool and returns at once
Del ==
    /\ Idle
    /\ disposed = "no"
    /\ disposed' = "del"
    /\ UNCHANGED <<config, driver, ui, phase, state, now, busy, fut, tn, cur, lastCall, hist,
                   caller, runs, thread, checkpoint, stream_out>>

Next ==
    \/ Invoke
    \/ Tick
    \/ AgentNode
    \/ Route
    \/ ToolsNodeEnter
    \/ AttemptUnknown
    \/ AttemptDirect
    \/ AttemptSubmit
    \/ WorkerPickup
    \/ AttemptComplete
    \/ AttemptTimeout
    \/ AbandonedFinish
    \/ ConcurrentRunTask
    \/ Shutdown
    \/ ShutdownReturns
    \/ Del
    \/ GetDriver
    \/ CloseDriver
    \/ ProcessChunk

\* the steps of a run; the clock and the abandoned tasks are its environment
RunStep ==
    \/ Invoke
    \/ AgentNode
    \/ Route
    \/ ToolsNodeEnter
    \/ AttemptUnknown
    \/ AttemptDirect
    \/ AttemptSubmit
    \/ AttemptComplete
    \/ AttemptTimeout

InitDispose == InitWith(DisposeConfigs, DisposingInvoke, {EmptyStore})
InitConcurrent == InitWith(ConcurrentConfigs, ConcurrentInvoke, {EmptyStore})
InitDriver == InitWith(DisposeConfigs, DriverUser, {EmptyStore})
InitHandler == InitWith(DisposeConfigs, HandlerUser, {EmptyStore})

\* the callers every specification explores besides its own
InitAux ==
    \/ InitDispose
    \/ InitConcurrent
    \/ InitDriver
    \/ InitHandler

Init ==
    \/ InitWith(LoopConfigs, SingleInvoke, {EmptyStore})
    \/ InitAux
InitRetry ==
    \/ InitWith(RetryConfigs, SingleInvoke, {EmptyStore})
    \/ InitAux
InitPrompt ==
    \/ InitWith(PromptConfigs, SingleInvoke, {EmptyStore, SeededStore})
    \/ InitAux
InitSession ==
    \/ InitWith(RepeatConfigs, RepeatedInvoke, {EmptyStore})
    \/ InitWith(StreamConfigs, SingleStream, {EmptyStore})
    \/ InitAux

Spec == Init /\ [][Next]_vars
SpecRetry == InitRetry /\ [][Next]_vars
SpecSession == InitSession /\ [][Next]_vars
SpecPrompt == InitPrompt /\ [][Next]_vars
\* every model call returns and every tool attempt returns or times out
FairSpec == Init /\ [][Next]_vars /\ WF_vars(RunStep)
FairSpecRetry == InitRetry /\ [][Next]_vars /\ WF_vars(RunStep)
FairSpecSession == InitSession /\ [][Next]_vars /\ WF_vars(RunStep)


\* ================================================================== claims

C2_IterationCountIsPasses ==
    iteration_count = reasoning_passes

\* a second pass that took the time-exceeded branch, after a tools pass
C2_Witness ==
    /\ lastPass.branch = "time_limit"
    /\ reasoning_passes = 2
    /\ iteration_count = 2

\* C3: a pass entered with iteration_count >= max_iterations takes the
\* iteration-overrun branch without calling the tool-bound model, which is
\* therefore called at most max_iterations times; iteration_count exceeds
\* max_iterations only once the overrun summary has been produced.
C3_ForcedSummaryBound ==
    /\ tool_model_calls <= config.max_iterations
    /\ (lastPass.branch /= "none" /\ lastPass.iteration >= config.max_iterations)
            => lastPass.branch = "iter_overrun"
    /\ lastPass.branch \in {"normal", "model_error"}
            => lastPass.iteration < config.max_iterations
    /\ iteration_count > config.max_iterations
            => /\ phase \in {"route", "done"}
               /\ messages[Len(messages)].kind = "iter_overrun"

C3_Witness ==
    /\ lastPass.branch = "iter_overrun"
    /\ lastPass.iteration = config.max_iterations
    /\ tool_model_calls = config.max_iterations
    /\ config.max_iterations = MaxIterations

\* C4: a pass entered with elapsed > max_execution_time produces an AI message
\* without tool calls and the router ends the run; elapsed = max_execution_time
\* does not take the time-exceeded branch.
C4_TimeLimit ==
    /\ (lastPass.branch /= "none" /\ lastPass.elapsed > config.max_execution_time)
            => /\ lastPass.branch \in {"time_limit", "iter_overrun"}
               /\ phase \in {"route", "done"}
               /\ messages[Len(messages)].type = "ai"
               /\ messages[Len(messages)].tool_calls = <<>>
               /\ RouteAfterAgent(messages) = "end"
    /\ (lastPass.branch /= "none" /\ lastPass.elapsed <= config.max_execution_time)
            => lastPass.branch /= "time_limit"

C4_Witness ==
    /\ lastPass.branch = "time_limit"
    /\ lastPass.elapsed > config.max_execution_time
    /\ lastPass.iteration > 0
    /\ phase = "done"

\* C5: the only steps out of the agent node lead to the router, and the router
\* goes to the tools node exactly when the last AI message carries tool calls
\* and to DONE exactly when it carries none; nothing else enters either.
C5_Routing ==
    [][/\ phase = "agent" => phase' \in {"agent", "route"}
       /\ (phase = "route" /\ phase' /= "route")
            => /\ phase' \in {"tools", "done"}
               /\ phase' = "tools" <=> Len(messages[Len(messages)].tool_calls) > 0
               /\ phase' = "done" <=> Len(messages[Len(messages)].tool_calls) = 0
       /\ (phase' = "tools" /\ phase /= "tools") => phase = "route"
       /\ (phase' = "done" /\ phase /= "done") => phase = "route"]_vars

\* the router has just sent a message with tool calls to the tools node
C5_Witness ==
    /\ phase = "tools"
    /\ tn.idx = 0
    /\ Len(messages[Len(messages)].tool_calls) > 1

\* C7 (amended): when the model invocation raises, the agent node returns
\* normally to the router with the diagnostic AI message appended to the history
\* and an error record of the agent node recorded; the diagnostic carries no
\* tool calls, so the router ends the run at DONE: the run is not aborted, and
\* no further pass follows.
C7_ModelErrorRecovered ==
    /\ [][(phase = "agent" /\ lastPass'.branch = "model_error" /\ phase' /= "agent")
            => /\ phase' = "route"
               /\ messages' = Append(messages, AIMessage("error", "diagnostic", <<>>))
               /\ \E i \in 1..Len(errors') :
                     /\ errors'[i].node = "agent"
                     /\ errors'[i].error_type \in ModelErrors
               /\ iteration_count' = iteration_count + 1
               /\ RouteAfterAgent(messages') = "end"]_vars
    /\ [](lastPass.branch = "model_error" => phase \in {"route", "done"})

\* C7 as stated: after a pass in which the model invocation raised, the
\* diagnostic is in the history, the error is recorded, and the loop goes on:
\* the run is neither aborted nor over.
C7_LoopContinues ==
    lastPass.branch = "model_error"
        => /\ messages[Len(messages)] = AIMessage("error", "diagnostic", <<>>)
           /\ \E i \in 1..Len(errors) : errors[i].node = "agent"
           /\ phase \notin {"aborted", "done"}

\* the model raised on the second pass, and the run ended normally
C7_Witness ==
    /\ lastPass.branch = "model_error"
    /\ reasoning_passes = 2
    /\ phase = "done"
    /\ errors /= <<>>


\* the Tool messages that follow the last AI message of msgs
RECURSIVE TrailingToolMessages(_)
TrailingToolMessages(msgs) ==
    IF msgs = <<>> \/ msgs[Len(msgs)].type /= "tool" THEN <<>>
    ELSE Append(TrailingToolMessages(SubSeq(msgs, 1, Len(msgs) - 1)), msgs[Len(msgs)])

\* the Tool messages and error records the running (or just ended) tools pass
\* has collected
PassToolMessages ==
    IF phase = "tools" THEN tn.tool_messages ELSE TrailingToolMessages(messages)
PassErrors ==
    IF phase = "tools" THEN tn.errors ELSE errors

\* C6: the tools node is left only towards the agent node, with one Tool message
\* per tool call appended (failures included, each with its error record), and
\* under fairness of the attempts it is always left; no outcome aborts the run.
C6_ToolsReturnToReasoning ==
    /\ [][phase = "tools"
            => /\ phase' \in {"tools", "agent"}
               /\ phase' = "agent" /\ tn.idx > 0
                    => /\ Len(messages') = Len(messages) + Len(last_message.tool_calls)
                       /\ \A i \in 1..Len(last_message.tool_calls) :
                            /\ messages'[Len(messages) + i].type = "tool"
                            /\ messages'[Len(messages) + i].tool_call_id
                                    = last_message.tool_calls[i].id
                       /\ Len(errors') = Cardinality(
                            {i \in 1..Len(last_message.tool_calls) :
                                messages'[Len(messages) + i].kind /= "result"})]_vars
    /\ [](phase /= "aborted")
    /\ (phase = "tools") ~> (phase = "agent")

\* a tools pass of two calls, one timed out and one of an unknown name, is over
C6_Witness ==
    /\ phase = "agent"
    /\ Len(errors) = 2
    /\ \E i, j \in 1..2 :
          errors[i].error_type = "TimeoutError" /\ errors[j].error_type = "ValueError"

\* C8: a registered tool whose every attempt timed out was attempted exactly
\* max_tool_retries + 1 times, with a sleep of 2^i half seconds after failed
\* attempt i < max_tool_retries and none after the last, and the call returned
\* the failure Tool message with a TimeoutError record of max_tool_retries + 1
\* attempts.
C8_AlwaysTimeout ==
    /\ (lastCall /= NoCall
            /\ \A i \in 1..Len(lastCall.outcomes) : lastCall.outcomes[i] = "TimeoutError")
         => /\ Len(lastCall.outcomes) = config.max_tool_retries + 1
            /\ lastCall.sleeps = [i \in 1..config.max_tool_retries |-> 2 ^ (i - 1)]
            /\ lastCall.msg.type = "tool"
            /\ lastCall.msg.kind = "timed_out"
            /\ lastCall.err /= None
            /\ lastCall.err.error_type = "TimeoutError"
            /\ lastCall.err.attempts = config.max_tool_retries + 1
    /\ (\A i \in 1..Len(cur.outcomes) : cur.outcomes[i] = "TimeoutError")
         => /\ Len(cur.outcomes) <= config.max_tool_retries
            /\ cur.sleeps = [i \in 1..Len(cur.outcomes) |-> 2 ^ (i - 1)]

C8_Witness ==
    /\ lastCall /= NoCall
    /\ config.max_tool_retries = MaxToolRetries
    /\ Len(lastCall.outcomes) = MaxToolRetries + 1
    /\ \A i \in 1..Len(lastCall.outcomes) : lastCall.outcomes[i] = "TimeoutError"

\* C9: a call whose attempt k is the first to succeed returns after exactly
\* k + 1 attempts (no attempt follows a success) with the success Tool message
\* and no error record, and the failed attempts before it add no error record
\* to the pass.
C9_SuccessOnAttemptK ==
    /\ \A i \in 1..Len(cur.outcomes) : cur.outcomes[i] /= "ok"
    /\ \A i \in 1..Len(lastCall.outcomes) :
          lastCall.outcomes[i] = "ok"
            => /\ i = Len(lastCall.outcomes)
               /\ i <= config.max_tool_retries + 1
               /\ Len(lastCall.sleeps) = i - 1
               /\ lastCall.msg.kind = "result"
               /\ lastCall.msg.tool_call_id = lastCall.call.id
               /\ lastCall.err = None
               /\ Len(PassErrors) = Cardinality(
                    {j \in 1..Len(PassToolMessages) : PassToolMessages[j].kind /= "result"})
               /\ PassToolMessages[Len(PassToolMessages)] = lastCall.msg

\* a timeout and a tool error, then success on the last attempt allowed
C9_Witness ==
    /\ config.max_tool_retries >= 2
    /\ Len(lastCall.outcomes) = config.max_tool_retries + 1
    /\ lastCall.outcomes[1] = "TimeoutError"
    /\ lastCall.outcomes[2] = "RuntimeError"
    /\ lastCall.outcomes[Len(lastCall.outcomes)] = "ok"
    /\ PassErrors = <<>>

\* C10: a tool call with a name outside the registry is attempted once, without
\* sleep or retry, and returns a Tool message with an error record whose kind is
\* neither the timeout kind nor a kind a tool raises.
C10_UnknownToolNoRetry ==
    /\ (phase = "tools" /\ tn.idx > 0 /\ CurCall.name \notin tools_by_name)
            => cur.outcomes = <<>> /\ cur.sleeps = <<>>
    /\ (lastCall /= NoCall /\ lastCall.call.name \notin tools_by_name)
            => /\ Len(lastCall.outcomes) = 1
               /\ lastCall.sleeps = <<>>
               /\ lastCall.msg.type = "tool"
               /\ lastCall.err /= None
               /\ lastCall.err.error_type \notin {"TimeoutError"} \cup ToolErrors

\* the loop of _tools_node: the tool calls of the pass handed to
\* _execute_tool_call_with_retries so far, those whose retry loop has returned,
\* and those in progress
Dispatched == IF phase = "tools" /\ tn.idx > 0 THEN 1..tn.idx ELSE {}
Returned == IF phase = "tools" /\ tn.idx > 0 THEN 1..Len(tn.tool_messages) ELSE {}
InProgress == Dispatched \ Returned

\* C11: while a tools pass runs, its tool calls not yet returned are in progress
\* together, as many of them as max_workers allows: with two calls and two
\* workers both are in progress at once.
C11_ConcurrentDispatch ==
    (phase = "tools" /\ tn.idx > 0)
        => LET pending == Len(last_message.tool_calls) - Cardinality(Returned)
           IN  Cardinality(InProgress) =
                   IF pending < config.max_workers THEN pending
                   ELSE config.max_workers

\* C12: the Tool messages a tools pass collects and appends to the history
\* stand in the order of the tool calls of the AI message before them, also
\* when the execution of an earlier call ends after that of a later one.
C12_ToolMessagesInCallOrder ==
    /\ (phase = "tools" /\ tn.idx > 0)
         => \A i \in 1..Len(tn.tool_messages) :
               tn.tool_messages[i].tool_call_id = last_message.tool_calls[i].id
    /\ (phase = "agent" /\ TrailingToolMessages(messages) /= <<>>)
         => LET tms == TrailingToolMessages(messages)
                ai  == messages[Len(messages) - Len(tms)]
            IN  /\ Len(tms) = Len(ai.tool_calls)
                /\ \A i \in 1..Len(tms) : tms[i].tool_call_id = ai.tool_calls[i].id

\* the single attempt of the first call timed out and its task still runs on
\* its worker after the second call has succeeded and the pass has returned
C12_Witness ==
    /\ phase = "agent"
    /\ config.max_tool_retries = 0
    /\ busy = 1
    /\ Len(TrailingToolMessages(messages)) = 2
    /\ TrailingToolMessages(messages)[1].kind = "timed_out"
    /\ TrailingToolMessages(messages)[2].kind = "result"

\* C13: the errors list is append-only within a run: no step of a started run
\* removes or changes a record it holds, so that every record written by an
\* agent or tools pass is still there after every later pass.
C13_ErrorsAppendOnly ==
    [][phase /= "idle"
         => /\ Len(errors') >= Len(errors)
            /\ \A i \in 1..Len(errors) : errors'[i] = errors[i]]_vars

\* C14: every AI message whose tools pass is over is followed by exactly one
\* Tool message per tool call it carries, each holding the id of its call, and
\* by no further Tool message; no Tool message stands anywhere else, and a
\* running pass has collected one Tool message per returned call, however many
\* attempts the calls took.
C14_ToolMessagesAnswerPrecedingCalls ==
    /\ \A j \in 1..Len(messages) :
          (messages[j].type = "ai" /\ j < Len(messages))
            => LET n == Len(messages[j].tool_calls)
               IN  /\ j + n <= Len(messages)
                   /\ \A i \in 1..n :
                         /\ messages[j + i].type = "tool"
                         /\ messages[j + i].tool_call_id = messages[j].tool_calls[i].id
                   /\ j + n < Len(messages) => messages[j + n + 1].type /= "tool"
    /\ \A k \in 1..Len(messages) :
          messages[k].type = "tool" => k > 1 /\ messages[k - 1].type \in {"ai", "tool"}
    /\ (phase = "tools" /\ tn.idx > 0) => Len(tn.tool_messages) = tn.idx - 1

\* the second tools pass of a run is over; it had two calls, and the last of
\* them took two attempts
C14_Witness ==
    /\ phase = "agent"
    /\ iteration_count = 2
    /\ Len(TrailingToolMessages(messages)) = 2
    /\ Len(lastCall.outcomes) = 2

\* the outcome of the attempt that has ended last
LastOutcome ==
    IF cur.outcomes /= <<>> THEN cur.outcomes[Len(cur.outcomes)]
    ELSE IF lastCall.outcomes /= <<>> THEN lastCall.outcomes[Len(lastCall.outcomes)]
    ELSE "none"

\* C15: an attempt handed to the executor (only under a positive timeout) can
\* at every moment be ended by the timeout, whether its task runs or waits in the
\* queue; a task that never ran can end in no other way, yields TimeoutError and
\* has held no worker; the timed-out wait costs the caller the timeout and no
\* more (then the backoff sleep, if a retry follows); and the wait always ends,
\* also when the task never completes or never starts.
C15_TimeoutAtDeadline ==
    /\ [](fut \in {"queued", "running"}
            => /\ config.tool_execution_timeout > 0
               /\ ENABLED AttemptTimeout)
    /\ [][(fut = "queued" /\ fut' = "none")
            => /\ LastOutcome' = "TimeoutError"
               /\ busy' = busy]_vars
    /\ [][(fut = "running" /\ fut' = "none" /\ LastOutcome' = "TimeoutError")
            => busy' = busy + 1]_vars
    /\ [][(fut /= "none" /\ fut' = "none" /\ LastOutcome' = "TimeoutError")
            => now' = Clock(now + config.tool_execution_timeout
                              + (IF cur' = EmptyCur THEN 0
                                 ELSE cur'.sleeps[Len(cur'.sleeps)]))]_vars
    /\ (fut /= "none") ~> (fut = "none")

\* with one worker: the only attempt of the first call timed out while running
\* and still holds the worker; the only attempt of the second call waited in
\* the queue, never ran, and was timed out
C15_Witness ==
    /\ config.max_workers = 1
    /\ config.max_tool_retries = 0
    /\ busy = 1
    /\ lastCall /= NoCall
    /\ lastCall.call.name \in tools_by_name
    /\ lastCall.invoked = 0
    /\ lastCall.outcomes = <<"TimeoutError">>
    /\ lastCall.msg.kind = "timed_out"

\* C16: under tool_execution_timeout <= 0 nothing is ever handed to the
\* executor (no future, no worker held), every attempt of a registered tool
\* runs tool.invoke on the caller and ends as the tool does, by its result or
\* by the exception it raises, and no attempt or record is a timeout.
C16_NoTimeoutRunsOnCaller ==
    config.tool_execution_timeout <= 0
        => /\ fut = "none"
           /\ busy = 0
           /\ \A i \in 1..Len(cur.outcomes) : cur.outcomes[i] /= "TimeoutError"
           /\ \A i \in 1..Len(lastCall.outcomes) : lastCall.outcomes[i] /= "TimeoutError"
           /\ (phase = "tools" /\ tn.idx > 0 /\ CurCall.name \in tools_by_name)
                => cur.invoked = Len(cur.outcomes)
           /\ lastCall.call.name \in tools_by_name
                => /\ lastCall.invoked = Len(lastCall.outcomes)
                   /\ \A i \in 1..Len(lastCall.outcomes) :
                         lastCall.outcomes[i] \in {"ok"} \cup ToolErrors
           /\ \A i \in 1..Len(PassErrors) : PassErrors[i].error_type /= "TimeoutError"
           /\ \A i \in 1..Len(PassToolMessages) : PassToolMessages[i].kind /= "timed_out"

\* without timeout: the tool raised on the first attempt and returned on the
\* second, both run on the caller
C16_Witness ==
    /\ config.tool_execution_timeout = 0
    /\ lastCall.call.name \in tools_by_name
    /\ lastCall.outcomes = <<"RuntimeError", "ok">>
    /\ lastCall.invoked = 2
    /\ busy = 0

\* C17 (amended): a second invoke starts with iteration_count = 0, a fresh
\* start_time and an empty errors list; on a thread id not used before its
\* history is the new Human message alone, but on the thread id of the first
\* run its history is the whole history of the first run followed by the new
\* Human message.
C17_SecondRunContinuesThread ==
    [][(phase = "done" /\ phase' = "agent")
         => /\ iteration_count' = 0
            /\ start_time' = now
            /\ errors' = <<>>
            /\ messages' = Append(IF thread' = thread THEN messages
                                  ELSE checkpoint[thread'].messages,
                                  HumanMessage)
            /\ thread' /= thread => messages' = <<HumanMessage>>]_vars

\* C17 as stated: a second invoke with the thread id of the first starts from
\* iteration_count = 0 with a history and an errors list that hold nothing of
\* the first run.
C17_IndependentHistories ==
    [][(phase = "done" /\ phase' = "agent" /\ thread' = thread)
         => /\ iteration_count' = 0
            /\ errors' = <<>>
            /\ messages' = <<HumanMessage>>]_vars

\* the second run has started on the thread of the first, whose failed tool
\* call is in its history and whose error record is not in its errors list
C17_Witness ==
    /\ runs = 2
    /\ phase = "agent"
    /\ iteration_count = 0
    /\ errors = <<>>
    /\ messages[Len(messages)] = HumanMessage
    /\ \E j \in 1..Len(messages) : messages[j].kind = "failed"

\* the completed tools passes in the history: the AI messages with tool calls
\* that are followed by their Tool messages
ToolsPasses ==
    Cardinality({j \in 1..Len(messages) :
                    /\ messages[j].type = "ai"
                    /\ messages[j].tool_calls /= <<>>
                    /\ j < Len(messages)})

\* every answer of the model in the history requests a tool, and the model
\* never raised
AlwaysRequestsTools ==
    \A j \in 1..Len(messages) :
        /\ messages[j].kind = "response" => messages[j].tool_calls /= <<>>
        /\ messages[j].kind /= "error"

RECURSIVE ChunkMessages(_)
ChunkMessages(out) ==
    IF out = <<>> THEN <<>>
    ELSE ChunkMessages(SubSeq(out, 1, Len(out) - 1)) \o out[Len(out)].messages

C20_EndsByDoneOrException ==
    (caller.api = "stream" /\ phase \notin {"idle", "agent", "route", "tools"})
        => /\ phase \in {"done", "aborted"}
           /\ \A i \in 1..Len(stream_out) : stream_out[i] /= ErrorChunk

\* C21: the agent node and the tools node of a run are never in progress
\* together: while the agent node or the router has the turn (or the run is
\* over) no tools pass is under way, no attempt is awaited and no call is
\* half done; the tools node runs only on the AI message the agent node has
\* returned; and the turn passes from one to the other only when the stage
\* that had it has returned.
C21_StagesNeverOverlap ==
    /\ [](phase \in {"idle", "agent", "route", "done"}
            => /\ tn = IdleTn
               /\ fut = "none"
               /\ cur = EmptyCur)
    /\ [](phase = "tools"
            => /\ last_message.type = "ai"
               /\ reasoning_passes = iteration_count)
    /\ [][(phase = "tools" /\ phase' = "agent")
            => /\ tn' = IdleTn
               /\ fut' = "none"
               /\ reasoning_passes' = reasoning_passes]_vars
    /\ [][(phase = "agent" /\ phase' /= "agent")
            => /\ reasoning_passes' = reasoning_passes + 1
               /\ tn' = IdleTn]_vars

\* the agent node has the turn after a tools pass, one of whose tasks, abandoned
\* at its timeout, still runs on the pool
C21_Witness ==
    /\ phase = "agent"
    /\ reasoning_passes = 1
    /\ busy > 0
    /\ tn = IdleTn

\* C22: once the disposal of the controller has finished, by shutdown() or by
\* deletion, no tool task is in flight on the pool (the tasks were drained
\* before the disposal returned), and the closed pool takes no new task.
C22_DisposalDrains ==
    disposed \in {"shutdown", "del"}
        => /\ busy = 0
           /\ fut = "none"

\* C23: a pass that takes the iteration-overrun or the time-exceeded branch
\* returns to the router, whatever _generate_summary does, with an AI message
\* without tool calls that names the budget of its branch and carries the
\* summary, or the fixed apology when the summary request raised; a pass entered
\* with both budgets exceeded produces the iteration-overrun message.
C23_ForcedSummaryMessage ==
    /\ lastPass.branch \in {"iter_overrun", "time_limit"}
         => /\ phase \in {"route", "done"}
            /\ last_message.type = "ai"
            /\ last_message.tool_calls = <<>>
            /\ last_message.kind = lastPass.branch
            /\ last_message.content =
                  IF lastPass.summary = "raise" THEN "apology" ELSE "summary"
    /\ (/\ lastPass.branch /= "none"
        /\ lastPass.iteration >= config.max_iterations
        /\ lastPass.elapsed > config.max_execution_time)
         => /\ lastPass.branch = "iter_overrun"
            /\ last_message.kind = "iter_overrun"

\* both budgets were exceeded at the entry and the summary request raised
C23_Witness ==
    /\ lastPass.branch = "iter_overrun"
    /\ lastPass.elapsed > config.max_execution_time
    /\ lastPass.summary = "raise"
    /\ last_message.content = "apology"
    /\ phase = "done"

\* C24: in a normal reasoning pass the list given to the model is the stored
\* history, with the configured system message put in front exactly when
\* config.system_message is set, the pass is the first one (iteration 0) and
\* the history holds no System message; the list never holds two System
\* messages of which one is the configured one.
ConfiguredSystemAt(msgs) ==
    {j \in 1..Len(msgs) : msgs[j] = SystemMessage("configured")}
C24_SystemMessageFirstIterationOnly ==
    lastPass.branch \in {"normal", "model_error"}
        => LET h  == lastPass.history
               mi == lastPass.model_input
               prepend == /\ config.system_message
                          /\ lastPass.iteration = 0
                          /\ ~HasSystem(h)
           IN  /\ mi = IF prepend THEN <<SystemMessage("configured")>> \o h ELSE h
               /\ Cardinality(ConfiguredSystemAt(mi)) <= 1
               /\ ConfiguredSystemAt(mi) /= {}
                     => Cardinality({j \in 1..Len(mi) : mi[j].type = "system"}) = 1

\* a second normal pass of a run whose first pass got the system message: the
\* model now gets the history alone
C24_Witness ==
    /\ config.system_message
    /\ lastPass.branch = "normal"
    /\ lastPass.iteration = 1
    /\ ~HasSystem(lastPass.history)
    /\ lastPass.model_input = lastPass.history
    /\ Len(lastPass.history) >= 3

\* C28: prepending the configured system message leaves the state alone: a
\* normal pass adds the model's AI message to the stored history and nothing
\* else, the stored history and the checkpoints never hold the configured
\* system message, and the model calls of the passes at iteration >= 1 and the
\* forced summary requests get a list without it.
C28_PrependLeavesStateAlone ==
    /\ ConfiguredSystemAt(messages) = {}
    /\ \A t \in Threads : ConfiguredSystemAt(checkpoint[t].messages) = {}
    /\ (lastPass.branch = "normal" /\ phase = "route")
          => /\ Len(messages) = Len(lastPass.history) + 1
             /\ SubSeq(messages, 1, Len(lastPass.history)) = lastPass.history
             /\ last_message.type = "ai"
    /\ (lastPass.branch \in {"normal", "model_error"} /\ lastPass.iteration >= 1)
          => lastPass.model_input = lastPass.history
    /\ lastPass.branch \in {"iter_overrun", "time_limit"}
          => /\ lastPass.model_input = Append(lastPass.history, SummaryPrompt)
             /\ ConfiguredSystemAt(lastPass.model_input) = {}

\* a run with a configured system message whose first pass got it and whose
\* forced summary at the iteration limit is requested without it
C28_Witness ==
    /\ config.system_message
    /\ lastPass.branch = "iter_overrun"
    /\ ~HasSystem(lastPass.model_input)
    /\ ~HasSystem(messages)
    /\ phase = "done"

\* C25: at every moment at most max_workers tool tasks are executing on the
\* pool, the abandoned ones and those of concurrent runs counted; a task is
\* started, at its submission or from the queue, only while fewer are
\* executing, and a task submitted while max_workers are executing waits in
\* the queue.
C25_PoolBounded ==
    /\ [](Executing <= config.max_workers)
    /\ [][(fut = "none" /\ fut' /= "none")
            => fut' = IF Executing < config.max_workers THEN "running"
                      ELSE "queued"]_vars
    /\ [][Executing' > Executing => Executing < config.max_workers]_vars

\* two workers, one held by the abandoned task of the first call and one by a
\* task of a concurrent run: the task of the second call waits in the queue
C25_Witness ==
    /\ caller.concurrent
    /\ config.max_workers = 2
    /\ tn.idx = 2
    /\ busy = 2
    /\ fut = "queued"

\* C26: a task that had started when its attempt was timed out goes on
\* executing and holds its worker: the timeout step adds it to the tasks the
\* pool executes, and no step of the run (retry, later call, later reasoning
\* pass) ever takes a task off the pool; a worker is freed only by a step in
\* which a task ends by itself and the run does nothing.  Every attempt whose
\* task ran is one more invocation of the tool, whatever the abandoned
\* invocations of the same call do.
C26_TimedOutTaskKeepsWorker ==
    /\ [][(fut = "running" /\ fut' = "none" /\ LastOutcome' = "TimeoutError")
            => /\ busy' = busy + 1
               /\ Executing' = Executing]_vars
    /\ [][busy' < busy
            => /\ busy' = busy - 1
               /\ UNCHANGED <<phase, state, now, fut, tn, cur, lastCall, hist>>]_vars
    /\ [][(fut = "running" /\ fut' = "none")
            => (IF cur' = EmptyCur THEN lastCall'.invoked ELSE cur'.invoked)
                  = cur.invoked + 1]_vars

\* two workers: the first attempt of a call was timed out while running and
\* still executes, and the retry of the same call executes next to it
C26_Witness ==
    /\ ~caller.concurrent
    /\ config.max_workers = 2
    /\ tn.idx = 1
    /\ tn.attempt = 1
    /\ cur.outcomes = <<"TimeoutError">>
    /\ cur.invoked = 1
    /\ busy = 1
    /\ fut = "running"

\* C27: an attempt whose task still waits in the queue when the timeout ends
\* it is reported as TimeoutError, and its task leaves the queue without ever
\* taking a worker or invoking the tool; while max_workers tasks hold the
\* workers a submitted task is queued and is not started; and a call to a
\* registered tool none of whose attempts ran has used up every attempt on a
\* timeout and ends with the timeout Tool message and the TimeoutError record.
C27_QueuedAttemptCancelled ==
    /\ [][(fut = "queued" /\ fut' = "none")
            => /\ LastOutcome' = "TimeoutError"
               /\ (IF cur' = EmptyCur THEN lastCall'.invoked ELSE cur'.invoked)
                     = cur.invoked
               /\ busy' = busy]_vars
    /\ [][(fut = "none" /\ fut' /= "none" /\ busy = config.max_workers)
            => fut' = "queued"]_vars
    /\ [][(fut = "queued" /\ fut' = "running") => busy < config.max_workers]_vars
    /\ []((/\ lastCall /= NoCall
           /\ lastCall.call.name \in tools_by_name
           /\ ~NoTimeout(config.tool_execution_timeout)
           /\ disposed = "no"
           /\ lastCall.invoked = 0)
            => /\ Len(lastCall.outcomes) = config.max_tool_retries + 1
               /\ \A i \in 1..Len(lastCall.outcomes) :
                     lastCall.outcomes[i] = "TimeoutError"
               /\ lastCall.msg.kind = "timed_out"
               /\ lastCall.err /= None
               /\ lastCall.err.error_type = "TimeoutError")

\* one worker and one retry: the worker is held by the abandoned first attempt
\* of the first call; both attempts of the second call waited in the queue,
\* were timed out and never ran
C27_Witness ==
    /\ config.max_workers = 1
    /\ config.max_tool_retries = 1
    /\ busy = 1
    /\ lastCall.call.name \in tools_by_name
    /\ lastCall.invoked = 0
    /\ lastCall.outcomes = <<"TimeoutError", "TimeoutError">>
    /\ lastCall.err.error_type = "TimeoutError"

\* C29: the driver cache holds no driver or a verified one; after a call of
\* get_neo4j_driver that raised the cache is empty, so that a driver
\* get_neo4j_driver returns is always a verified one; after close_neo4j_driver
\* has returned the cache is empty.
C29_CacheHoldsVerifiedOnly ==
    /\ neo4j_driver \in {"None", "verified"}
    /\ (driver_call.op = "get" /\ driver_call.raised) => neo4j_driver = "None"
    /\ (driver_call.op = "get" /\ ~driver_call.raised)
          => driver_call.returned = "verified"
    /\ (driver_call.op = "close" /\ ~driver_call.raised) => neo4j_driver = "None"

\* the ids shown in blocks of the given kind by the process_chunk calls done
ShownIds(done, kind) ==
    UNION {{done[k].output[i].id :
               i \in {j \in 1..Len(done[k].output) : done[k].output[j].kind = kind}} :
           k \in 1..Len(done)}

\* C30: pending_tool_calls is the set of the tool-call ids the handler has
\* announced and not yet shown the result of; and once process_chunk has
\* handled the tools chunk that follows an agent chunk with tool calls, nothing
\* is pending, the chunk's Tool messages have all been shown and the next
\* "Agent Thinking" message has been emitted, with and without error records
\* in the chunk.
C30_PendingClearedAfterToolsChunk ==
    /\ pending_tool_calls
          = ShownIds(processed, "tool_call") \ ShownIds(processed, "tool_result")
    /\ (/\ Len(processed) >= 2
        /\ processed[Len(processed)].chunk.node = "tools")
          => LET p == processed[Len(processed)]
             IN  /\ ~p.raised
                 /\ pending_tool_calls = {}
                 /\ \A i \in 1..Len(p.chunk.messages) :
                       \E j \in 1..Len(p.output) :
                          p.output[j] = Block("tool_result",
                                              p.chunk.messages[i].tool_call_id)
                 /\ p.output[Len(p.output)]
                       = Block("thinking", last_iteration + 1)

====
